---- MODULE Spec2Model ----
(***************************************************************************)
(* The cart store of src/components/shop/CartProvider.tsx: a React         *)
(* provider holding the cart, the "cart panel open" flag and the "loaded"  *)
(* flag in three state hooks, loading the cart from localStorage key       *)
(* "cart" in a mount effect and saving it in an effect on [cart, loaded].  *)
(*                                                                         *)
(* cart, isCartOpen, loaded, totalItems, totalPrice are what the last      *)
(* render of CartProvider saw and published; nextCart, nextIsCartOpen and  *)
(* nextLoaded are the hooks' states with the updates queued since that     *)
(* render applied in call order (the updaters are pure, so applying them   *)
(* when they are queued or when the next render runs gives the same        *)
(* state).  Render commits them; the effects run after a commit.           *)
(* cleared is a history variable: the latest update of the cart hook is    *)
(* the one clearCart queued.  raised tells that an error left an effect or *)
(* an operation instead of being caught in it.                             *)
(***************************************************************************)
EXTENDS Integers, Sequences, FiniteSets, TLC

VARIABLES cart, isCartOpen, loaded, totalItems, totalPrice,
          nextCart, nextIsCartOpen, nextLoaded, cartChanged,
          hydratePending, persistPending,
          storage, broken, hasWindow, cleared, raised

vars == <<cart, isCartOpen, loaded, totalItems, totalPrice,
          nextCart, nextIsCartOpen, nextLoaded, cartChanged,
          hydratePending, persistPending,
          storage, broken, hasWindow, cleared, raised>>

rendered == <<cart, isCartOpen, loaded, totalItems, totalPrice>>
hooks == <<nextCart, nextIsCartOpen, nextLoaded, cartChanged>>
effects == <<hydratePending, persistPending>>
environment == <<broken, hasWindow>>

(***************************************************************************)
(* Bounds of the model.                                                    *)
(***************************************************************************)
\* the largest quantity an entry is driven to by the modelled calls
MaxQty == 2

(***************************************************************************)
(* Values.                                                                 *)
(***************************************************************************)
\* the value of a property that an object does not have (image?: string)
Undefined == "<undefined>"

\* Omit<CartItem, 'quantity'>
Product(id, name, price, image) ==
    [id |-> id, name |-> name, price |-> price, description |-> "d", image |-> image]

\* two products sharing id "p1" with different fields, and one other product
P1 == Product("p1", "A", 2, "a.png")

P1New == Product("p1", "A-new", 3, Undefined)

P2 == Product("p2", "B", 5, Undefined)

Products == {P1, P1New, P2}

\* a missing product (null / undefined passed by the caller)
NullProduct == [null |-> TRUE]

IsNull(product) == "null" \in DOMAIN product

\* what callers pass to addToCart: products, a product with a falsy id, no product
ProductArgs == Products \cup {Product("", "E", 1, Undefined), NullProduct}

\* what callers pass as id: the ids of the products and the empty string
IdArgs == {"p1", "p2", ""}

\* what callers pass as quantity
QuantityArgs == (0 - 1) .. MaxQty

\* { ...product, quantity }
Item(product, quantity) ==
    [id |-> product.id, name |-> product.name, price |-> product.price,
     description |-> product.description, image |-> product.image,
     quantity |-> quantity]

(***************************************************************************)
(* JSON.stringify / JSON.parse on carts.  A stored text is [tag, items]:   *)
(* no key ("absent"), the empty string ("empty"), text that is not JSON    *)
(* ("invalid"), JSON that is no array ("nonarray"), or the JSON text of an *)
(* array of objects ("array"), each object the sequence of its members.    *)
(***************************************************************************)
StringMember(key, value) == [key |-> key, type |-> "string", str |-> value, num |-> 0]

NumberMember(key, value) == [key |-> key, type |-> "number", str |-> "", num |-> value]

\* JSON.stringify of one entry: members in property order, undefined ones left out
StringifyItem(item) ==
    LET all == << StringMember("id", item.id),
                  StringMember("name", item.name),
                  NumberMember("price", item.price),
                  StringMember("description", item.description),
                  StringMember("image", item.image),
                  NumberMember("quantity", item.quantity) >>
        Defined(m) == ~(m.type = "string" /\ m.str = Undefined)
    IN  SelectSeq(all, Defined)

\* JSON.stringify(cart)
JSONstringify(value) ==
    [tag |-> "array", items |-> [i \in 1 .. Len(value) |-> StringifyItem(value[i])]]

\* the value of property key of a parsed object: undefined when it has no such member
Property(members, key) ==
    IF \E i \in 1 .. Len(members) : members[i].key = key
    THEN LET m == members[CHOOSE i \in 1 .. Len(members) : members[i].key = key]
         IN  IF m.type = "string" THEN m.str ELSE m.num
    ELSE Undefined

ParseItem(members) ==
    [id |-> Property(members, "id"), name |-> Property(members, "name"),
     price |-> Property(members, "price"),
     description |-> Property(members, "description"),
     image |-> Property(members, "image"),
     quantity |-> Property(members, "quantity")]

\* JSON.parse(text): throws on text that is not JSON, else the value and whether
\* Array.isArray holds of it
JSONparse(text) ==
    CASE text.tag = "array" ->
            [throws |-> FALSE, isArray |-> TRUE,
             value |-> [i \in 1 .. Len(text.items) |-> ParseItem(text.items[i])]]
      [] text.tag = "nonarray" ->
            [throws |-> FALSE, isArray |-> FALSE, value |-> <<>>]
      [] OTHER ->
            [throws |-> TRUE, isArray |-> FALSE, value |-> <<>>]

NoKey == [tag |-> "absent", items |-> <<>>]
EmptyText == [tag |-> "empty", items |-> <<>>]
InvalidText == [tag |-> "invalid", items |-> <<>>]
NonArrayText == [tag |-> "nonarray", items |-> <<>>]

\* a string is truthy unless it is empty; getItem gives null for a missing key
Truthy(text) == text.tag \notin {"absent", "empty"}

(***************************************************************************)
(* The derived totals (a reduce over the cart, from 0).                    *)
(***************************************************************************)
RECURSIVE ReduceQuantity(_, _)
ReduceQuantity(items, total) ==
    IF items = <<>> THEN total
    ELSE ReduceQuantity(Tail(items), total + Head(items).quantity)

RECURSIVE ReducePrice(_, _)
ReducePrice(items, total) ==
    IF items = <<>> THEN total
    ELSE ReducePrice(Tail(items), total + Head(items).price * Head(items).quantity)

\* TotalItems counting the entries instead of their quantities
TotalItemsEntries(items) == Len(items)

TotalItems(items) == ReduceQuantity(items, 0)

TotalPrice(items) == ReducePrice(items, 0)

(***************************************************************************)
(* The state updaters passed to setCart.                                   *)
(***************************************************************************)
\* prevCart.findIndex(item => item.id === id): the first index, 0 when none (-1 in JS)
FindIndex(prevCart, id) ==
    IF \E i \in 1 .. Len(prevCart) : prevCart[i].id = id
    THEN CHOOSE i \in 1 .. Len(prevCart) :
            /\ prevCart[i].id = id
            /\ \A j \in 1 .. (i - 1) : prevCart[j].id # id
    ELSE 0

\* AddUpdater that rebuilds an existing entry from the supplied product
AddUpdaterOverwrite(prevCart, product) ==
    LET existingItemIndex == FindIndex(prevCart, product.id)
    IN  IF existingItemIndex # 0
        THEN [prevCart EXCEPT ![existingItemIndex] =
                 Item(product, prevCart[existingItemIndex].quantity + 1)]
        ELSE Append(prevCart, Item(product, 1))

\* AddUpdater without the search for an existing entry
AddUpdaterAppend(prevCart, product) == Append(prevCart, Item(product, 1))

\* AddUpdater that puts a new entry first
AddUpdaterPrepend(prevCart, product) ==
    LET existingItemIndex == FindIndex(prevCart, product.id)
    IN  IF existingItemIndex # 0
        THEN [prevCart EXCEPT ![existingItemIndex].quantity = @ + 1]
        ELSE <<Item(product, 1)>> \o prevCart

AddUpdater(prevCart, product) ==
    LET existingItemIndex == FindIndex(prevCart, product.id)
    IN  IF existingItemIndex # 0
        THEN [prevCart EXCEPT ![existingItemIndex].quantity = @ + 1]
        ELSE Append(prevCart, Item(product, 1))

\* RemoveUpdater with the filter inverted
RemoveUpdaterKeepOnly(prevCart, id) ==
    LET Keep(item) == item.id = id
    IN  SelectSeq(prevCart, Keep)

RemoveUpdater(prevCart, id) ==
    LET Keep(item) == item.id # id
    IN  SelectSeq(prevCart, Keep)

\* QuantityUpdater without the comparison of ids
QuantityUpdaterAll(prevCart, id, quantity) ==
    [i \in 1 .. Len(prevCart) |-> [prevCart[i] EXCEPT !.quantity = quantity]]

QuantityUpdater(prevCart, id, quantity) ==
    [i \in 1 .. Len(prevCart) |->
        IF prevCart[i].id = id
        THEN [prevCart[i] EXCEPT !.quantity = quantity]
        ELSE prevCart[i]]

(***************************************************************************)
(* localStorage: a call throws when the API is broken (quota, disabled     *)
(* storage) or when there is no window at all.                             *)
(***************************************************************************)
Throws(call) == ~hasWindow \/ call \in broken

\* Caught with the inner try of the load effect's catch block missing
CaughtOuter(site) == site \in {"load", "save", "clear"}

\* the storage calls that sit in a try block with a catch: those of the load effect
\* ("load"), of its catch block ("recover"), of the save effect and of clearCart
Caught(site) == site \in {"load", "recover", "save", "clear"}

\* an error thrown by a storage call at site leaves the effect or operation
Escapes(call, site) == Throws(call) /\ ~Caught(site)

\* RemoveItem that is never called
RemoveItemSkipped(text) == text

\* localStorage.removeItem('cart') inside a try: the key is gone unless the call throws
RemoveItem(text) == IF Throws("removeItem") THEN text ELSE NoKey

(***************************************************************************)
(* The initial state: CartProvider has rendered once (empty cart, panel    *)
(* closed, not loaded) and its two effects are scheduled.  Storage holds   *)
(* what an earlier session left under key "cart", or a corrupt text.       *)
(***************************************************************************)
\* carts an earlier session of this store can have saved
SavedCarts ==
    { <<Item(P1, MaxQty), Item(P2, 1)>>, <<Item(P2, 1), Item(P1New, 1)>> }

CorruptTexts == {EmptyText, InvalidText, NonArrayText}

\* what the key "cart" holds when the store starts: nothing, a corrupt text, or a
\* cart this store saved
InitialTexts == {NoKey} \cup CorruptTexts \cup {JSONstringify(c) : c \in SavedCarts}

StorageCalls == {"getItem", "setItem", "removeItem"}

Mounted ==
    /\ cart = <<>> /\ isCartOpen = FALSE /\ loaded = FALSE
    /\ totalItems = 0 /\ totalPrice = 0
    /\ nextCart = <<>> /\ nextIsCartOpen = FALSE /\ nextLoaded = FALSE
    /\ cartChanged = FALSE /\ cleared = FALSE /\ raised = FALSE
    /\ hydratePending = TRUE /\ persistPending = TRUE

Init ==
    /\ Mounted
    /\ hasWindow \in BOOLEAN
    /\ broken \in SUBSET StorageCalls
    /\ storage \in InitialTexts
    /\ ~hasWindow => (broken = StorageCalls /\ storage = NoKey)

(***************************************************************************)
(* The effects.                                                            *)
(***************************************************************************)
\* Hydration with the Array.isArray test the wrong way round
HydrationInverted(text) ==
    IF Throws("getItem")
    THEN [setCart |-> FALSE, value |-> <<>>, text |-> RemoveItem(text)]
    ELSE IF ~Truthy(text)
    THEN [setCart |-> FALSE, value |-> <<>>, text |-> text]
    ELSE LET parsedCart == JSONparse(text)
         IN  IF parsedCart.throws
             THEN [setCart |-> FALSE, value |-> <<>>, text |-> RemoveItem(text)]
             ELSE IF ~parsedCart.isArray
             THEN [setCart |-> TRUE, value |-> parsedCart.value, text |-> text]
             ELSE [setCart |-> TRUE, value |-> <<>>, text |-> RemoveItem(text)]

\* what the load effect does to the cart hook and to storage, given the stored text
Hydration(text) ==
    IF Throws("getItem")
    THEN [setCart |-> FALSE, value |-> <<>>, text |-> RemoveItem(text)]
    ELSE IF ~Truthy(text)
    THEN [setCart |-> FALSE, value |-> <<>>, text |-> text]
    ELSE LET parsedCart == JSONparse(text)
         IN  IF parsedCart.throws
             THEN [setCart |-> FALSE, value |-> <<>>, text |-> RemoveItem(text)]
             ELSE IF parsedCart.isArray
             THEN [setCart |-> TRUE, value |-> parsedCart.value, text |-> text]
             \* removeItem throwing here lands in the catch, which calls it again
             ELSE [setCart |-> TRUE, value |-> <<>>, text |-> RemoveItem(text)]

\* the try block of the load effect ends in its catch block
HydrationCatches(text) ==
    \/ Throws("getItem")
    \/ /\ Truthy(text)
       /\ \/ JSONparse(text).throws
          \/ (~JSONparse(text).isArray /\ Throws("removeItem"))

\* HydrateEffect with setLoaded(true) at the end of the try block instead of in a
\* finally block
HydrateEffectNoFinally ==
    /\ hydratePending
    /\ hydratePending' = FALSE
    /\ IF ~hasWindow
       THEN UNCHANGED <<nextCart, cartChanged, cleared, nextLoaded, storage, raised>>
       ELSE LET h == Hydration(storage)
            IN  /\ nextCart' = IF h.setCart THEN h.value ELSE nextCart
                /\ cartChanged' = (cartChanged \/ h.setCart)
                /\ cleared' = (cleared /\ ~h.setCart)
                /\ storage' = h.text
                /\ nextLoaded' = ~HydrationCatches(storage)
                /\ raised' = raised
    /\ UNCHANGED <<rendered, nextIsCartOpen, persistPending, environment>>

\* useEffect(() => { ... }, []): runs once after the first render
HydrateEffect ==
    /\ hydratePending
    /\ hydratePending' = FALSE
    /\ IF ~hasWindow
       THEN UNCHANGED <<nextCart, cartChanged, cleared, nextLoaded, storage, raised>>
       ELSE LET h == Hydration(storage)
            IN  /\ nextCart' = IF h.setCart THEN h.value ELSE nextCart
                /\ cartChanged' = (cartChanged \/ h.setCart)
                /\ cleared' = (cleared /\ ~h.setCart)
                /\ storage' = h.text
                /\ nextLoaded' = TRUE
                /\ raised' = \/ raised
                              \/ (HydrationCatches(storage) /\ ~Caught("load"))
                              \/ (HydrationCatches(storage) /\ Escapes("removeItem", "recover"))
    /\ UNCHANGED <<rendered, nextIsCartOpen, persistPending, environment>>

\* PersistAllowed without the test of loaded
PersistAllowedUnloaded == hasWindow

\* if (!loaded || typeof window === 'undefined') return
PersistAllowed == loaded /\ hasWindow

\* PersistEffect that falls back to the empty cart after a failed write
PersistEffectRollback ==
    /\ persistPending
    /\ ~hydratePending
    /\ persistPending' = FALSE
    /\ storage' = IF PersistAllowed /\ ~Throws("setItem")
                  THEN JSONstringify(cart)
                  ELSE storage
    /\ IF PersistAllowed /\ Throws("setItem")
       THEN nextCart' = <<>> /\ cartChanged' = TRUE
       ELSE UNCHANGED <<nextCart, cartChanged>>
    /\ raised' = (raised \/ (PersistAllowed /\ Escapes("setItem", "save")))
    /\ UNCHANGED <<rendered, nextIsCartOpen, nextLoaded, hydratePending, environment,
                   cleared>>

\* useEffect(() => { ... }, [cart, loaded]): runs after a render that changed either
PersistEffect ==
    /\ persistPending
    /\ ~hydratePending
    /\ persistPending' = FALSE
    /\ storage' = IF PersistAllowed /\ ~Throws("setItem")
                  THEN JSONstringify(cart)
                  ELSE storage
    /\ raised' = (raised \/ (PersistAllowed /\ Escapes("setItem", "save")))
    /\ UNCHANGED <<rendered, hooks, hydratePending, environment, cleared>>

\* DepsChanged with the dependencies [loaded] only
DepsChangedLoaded == nextLoaded # loaded

\* the dependencies [cart, loaded] of the save effect: cart is a new array after
\* every setCart, loaded is compared by value
DepsChanged == cartChanged \/ nextLoaded # loaded

\* a render of CartProvider: reads the hooks, computes the totals, schedules the
\* save effect when its dependencies changed
Render ==
    /\ ~hydratePending
    /\ ~persistPending
    /\ cartChanged \/ nextIsCartOpen # isCartOpen \/ nextLoaded # loaded
    /\ cart' = nextCart
    /\ isCartOpen' = nextIsCartOpen
    /\ loaded' = nextLoaded
    /\ totalItems' = TotalItems(nextCart)
    /\ totalPrice' = TotalPrice(nextCart)
    /\ cartChanged' = FALSE
    /\ persistPending' = DepsChanged
    /\ UNCHANGED <<nextCart, nextIsCartOpen, nextLoaded, hydratePending, storage,
                   environment, cleared, raised>>

(***************************************************************************)
(* The operations of the context value.  They are called from event        *)
(* handlers and from the effects of child components, which run before the *)
(* provider's own effects; a commit's effects are flushed before the next  *)
(* handler runs.                                                           *)
(***************************************************************************)
CanCall == hydratePending \/ ~persistPending

\* PrevCart as the cart of the last render (an update built from the closure's
\* cart instead of an updater function)
PrevCartClosure == cart

\* the prevCart an updater passed to setCart receives: the hook's state with the
\* updates queued before it applied
PrevCart == nextCart

\* setCart(updater): the hook's state moves on and holds a new array
SetCart(value) ==
    /\ nextCart' = value
    /\ cartChanged' = TRUE

\* InvalidProduct without the test of the id
InvalidProductNull(product) == IsNull(product)

\* if (!product || !product.id)
InvalidProduct(product) == IsNull(product) \/ product.id = ""

\* addToCart without setIsCartOpen(true)
addToCartSilent(product) ==
    /\ CanCall
    /\ IF InvalidProduct(product)
       THEN UNCHANGED vars
       ELSE /\ \A i \in 1 .. Len(nextCart) :
                  nextCart[i].id = product.id => nextCart[i].quantity < MaxQty
            /\ SetCart(AddUpdater(PrevCart, product))
            /\ cleared' = FALSE
            /\ UNCHANGED <<rendered, nextIsCartOpen, nextLoaded, effects, storage,
                           environment, raised>>

addToCart(product) ==
    /\ CanCall
    /\ IF InvalidProduct(product)
       THEN UNCHANGED vars
       ELSE /\ \A i \in 1 .. Len(nextCart) :
                  nextCart[i].id = product.id => nextCart[i].quantity < MaxQty
            /\ SetCart(AddUpdater(PrevCart, product))
            /\ cleared' = FALSE
            /\ nextIsCartOpen' = TRUE
            /\ UNCHANGED <<rendered, nextLoaded, effects, storage, environment, raised>>

removeFromCart(id) ==
    /\ CanCall
    /\ IF id = ""
       THEN UNCHANGED vars
       ELSE /\ SetCart(RemoveUpdater(PrevCart, id))
            /\ cleared' = FALSE
            /\ UNCHANGED <<rendered, nextIsCartOpen, nextLoaded, effects, storage,
                           environment, raised>>

\* NotPositive with < for <=
NotPositiveStrict(quantity) == quantity < 0

\* if (quantity <= 0)
NotPositive(quantity) == quantity <= 0

updateQuantity(id, quantity) ==
    IF id = ""
    THEN CanCall /\ UNCHANGED vars
    ELSE IF NotPositive(quantity)
    THEN removeFromCart(id)
    ELSE /\ CanCall
         /\ SetCart(QuantityUpdater(PrevCart, id, quantity))
         /\ cleared' = FALSE
         /\ UNCHANGED <<rendered, nextIsCartOpen, nextLoaded, effects, storage,
                        environment, raised>>

\* clearCart that also closes the panel
clearCartClosing ==
    /\ CanCall
    /\ SetCart(<<>>)
    /\ cleared' = TRUE
    /\ nextIsCartOpen' = FALSE
    /\ storage' = RemoveItem(storage)
    /\ raised' = (raised \/ Escapes("removeItem", "clear"))
    /\ UNCHANGED <<rendered, nextLoaded, effects, environment>>

clearCart ==
    /\ CanCall
    /\ SetCart(<<>>)
    /\ cleared' = TRUE
    /\ storage' = RemoveItem(storage)
    /\ raised' = (raised \/ Escapes("removeItem", "clear"))
    /\ UNCHANGED <<rendered, nextIsCartOpen, nextLoaded, effects, environment>>

setIsCartOpen(isOpen) ==
    /\ CanCall
    /\ nextIsCartOpen' = isOpen
    /\ UNCHANGED <<rendered, nextCart, cartChanged, nextLoaded, effects, storage,
                   environment, cleared, raised>>

Next ==
    \/ HydrateEffect
    \/ PersistEffect
    \/ Render
    \/ \E product \in ProductArgs : addToCart(product)
    \/ \E id \in IdArgs : removeFromCart(id)
    \/ \E id \in IdArgs, quantity \in QuantityArgs : updateQuantity(id, quantity)
    \/ clearCart
    \/ \E isOpen \in BOOLEAN : setIsCartOpen(isOpen)

Spec == Init /\ [][Next]_vars

\* arrays under key "cart" that no session of this store saved: two entries with
\* one id, an entry with quantity 0
ForeignCarts ==
    { <<Item(P1, 1), Item(P1New, 1)>>, <<Item(P2, 0)>> }

\* the store mounted in a browser over any stored array
InitAnyStored ==
    /\ Mounted
    /\ hasWindow = TRUE
    /\ broken \in SUBSET StorageCalls
    /\ storage \in {JSONstringify(c) : c \in SavedCarts \cup ForeignCarts}

SpecAnyStored == InitAnyStored /\ [][Next]_vars

\* the store when no operation of the context value is called
NextLifecycle ==
    \/ HydrateEffect
    \/ PersistEffect
    \/ Render

\* React runs every scheduled effect and every scheduled render
FairLifecycle ==
    /\ Init /\ [][NextLifecycle]_vars
    /\ WF_vars(HydrateEffect) /\ WF_vars(PersistEffect) /\ WF_vars(Render)

(***************************************************************************)
(* Properties.                                                             *)
(***************************************************************************)
UniqueIds(items) ==
    \A i, j \in 1 .. Len(items) : i # j => items[i].id # items[j].id

PositiveQuantities(items) ==
    \A i \in 1 .. Len(items) : items[i].quantity > 0

\* no update is queued and no effect is scheduled
Settled ==
    /\ ~hydratePending /\ ~persistPending
    /\ ~cartChanged /\ nextLoaded = loaded /\ nextIsCartOpen = isCartOpen

WorkingStorage == hasWindow /\ broken = {}

\* C1: from the empty cart (or a cart this store saved), whatever addToCart,
\* removeFromCart and updateQuantity calls are made, neither the rendered cart nor
\* the cart hook ever holds two entries with one id or an entry with quantity <= 0.
C1_UniquePositive ==
    /\ UniqueIds(cart) /\ PositiveQuantities(cart)
    /\ UniqueIds(nextCart) /\ PositiveQuantities(nextCart)

\* C1 witness: a cart no stored text holds, built by the calls: p2 first, then p1
\* raised to the largest quantity
C1_Witness ==
    /\ Len(cart) = 2 /\ cart[1].id = "p2" /\ cart[2].id = "p1"
    /\ cart[2].quantity = MaxQty /\ cart[2].name = "A"

\* C2 as claimed: as long as hydration has not run, a cart stored under the key
\* "cart" stays as it is
C2_NoChangeBeforeHydration ==
    [][(hydratePending' /\ Len(storage.items) > 0) => storage' = storage]_vars

\* C2 amended: until hydration is complete (loaded), the key "cart" is never
\* written; the only changes to it are an erase, by hydration itself or by clearCart
C2_OnlyEraseBeforeLoaded ==
    [][(~loaded /\ storage' # storage)
          => (storage' = NoKey /\ (HydrateEffect \/ clearCart))]_vars

\* C2 witness: the save effect of the mount has run before hydration is complete
\* and the saved cart is still under the key
C2_Witness ==
    /\ ~loaded /\ nextLoaded /\ ~hydratePending /\ ~persistPending
    /\ storage = JSONstringify(<<Item(P1, MaxQty), Item(P2, 1)>>)

\* the cart a fresh store ends with when it hydrates from text
FreshCart(text) ==
    LET h == Hydration(text) IN IF h.setCart THEN h.value ELSE <<>>

\* C3: with working storage, when the save effect has written the cart, a fresh
\* store hydrating from the stored text gets an equal cart
C3_RoundTrip ==
    [][(PersistEffect /\ PersistAllowed /\ WorkingStorage)
          => FreshCart(storage') = cart]_vars

\* C3 witness: a cart built by the calls is stored, with an entry that has no image
C3_Witness ==
    /\ WorkingStorage /\ loaded /\ Settled
    /\ cart = <<Item(P2, 1), Item(P1, MaxQty)>>
    /\ storage.tag = "array" /\ Len(storage.items) = 2
    /\ Len(storage.items[1]) < Len(storage.items[2])

\* the stored text is not JSON, or is JSON that is no array
CorruptStart == WorkingStorage /\ hydratePending /\ storage \in CorruptTexts

\* C4 as claimed: with working storage, a store that hydrates from a corrupt text
\* ends with an empty cart and no key "cart"
C4_EndsErased == CorruptStart => <>[](cart = <<>> /\ storage = NoKey)

\* C4 amended: with working storage and no call before it, hydration from a text
\* that is not JSON or no array erases the key and leaves the cart hook empty
\* (an empty string is left alone); the save effect that follows the completion of
\* hydration then writes the empty cart, so the store ends with an empty cart and
\* the text of the empty array under the key
C4_ErasedThenEmptyArray ==
    /\ [][(HydrateEffect /\ CorruptStart)
             => /\ nextCart' = <<>>
                /\ storage' = IF storage = EmptyText THEN EmptyText ELSE NoKey]_vars
    /\ (CorruptStart => <>[](cart = <<>> /\ storage = JSONstringify(<<>>)))

\* C4 witness: hydration took the not-an-array path (it set the cart and the key
\* is gone) and is not yet complete
C4_Witness ==
    /\ WorkingStorage /\ ~hydratePending /\ ~loaded /\ nextLoaded
    /\ cartChanged /\ nextCart = <<>> /\ storage = NoKey

\* the key "cart" holds no entries: it is absent or holds the empty array
NoStoredItems == storage = NoKey \/ storage = JSONstringify(<<>>)

\* C5 as claimed: once the store has settled after clearCart, the cart is empty
\* and the key holds no entries, whatever storage calls throw
C5_ClearedWhateverThrows ==
    (cleared /\ Settled) => (cart = <<>> /\ NoStoredItems)

\* C5 amended: once the store has settled after clearCart, the cart is empty; and
\* the key holds no entries when the erase did not throw, or when it threw and the
\* save that follows (hydration complete) did not
C5_ClearedUnlessBothThrow ==
    (cleared /\ Settled)
        => /\ cart = <<>>
           /\ ("removeItem" \notin broken \/ (loaded /\ "setItem" \notin broken))
                 => NoStoredItems

\* C5 witness: the erase throws, saving works, clearCart was called on a stored
\* cart and the store has settled with the key rewritten
C5_Witness ==
    /\ cleared /\ Settled /\ hasWindow /\ broken = {"removeItem"}
    /\ storage = JSONstringify(<<>>)

\* C6: once hydration is complete and the store has settled, with saving working,
\* the key "cart" holds the text of the current cart
C6_StoredIsCurrent ==
    (loaded /\ Settled /\ hasWindow /\ "setItem" \notin broken)
        => storage = JSONstringify(cart)

\* C6 witness: a cart changed by the calls after hydration is the one stored
C6_Witness ==
    /\ loaded /\ Settled /\ hasWindow /\ "setItem" \notin broken
    /\ Len(cart) = 1 /\ cart[1].id = "p1" /\ cart[1].name = "A-new"
    /\ cart[1].quantity = MaxQty
    /\ storage = JSONstringify(cart)

RECURSIVE SumUpTo(_, _)
\* f[1] + ... + f[n]
SumUpTo(f, n) == IF n = 0 THEN 0 ELSE SumUpTo(f, n - 1) + f[n]

\* C7: the published totals are the sums over the published cart: of quantity,
\* and of price * quantity
C7_Totals ==
    /\ totalItems = SumUpTo([i \in 1 .. Len(cart) |-> cart[i].quantity], Len(cart))
    /\ totalPrice =
          SumUpTo([i \in 1 .. Len(cart) |-> cart[i].price * cart[i].quantity], Len(cart))
    /\ cart = <<>> => (totalItems = 0 /\ totalPrice = 0)

\* C7 witness: two entries with different prices, one with quantity above 1
C7_Witness ==
    /\ Len(cart) = 2 /\ cart[1].quantity = MaxQty /\ cart[2].quantity = 1
    /\ cart[1].price # cart[2].price
    /\ totalItems = MaxQty + 1

SameButQuantity(a, b) ==
    /\ a.id = b.id /\ a.name = b.name /\ a.price = b.price
    /\ a.description = b.description /\ a.image = b.image

\* C8: addToCart of a product whose id is in the cart raises that entry's quantity
\* by 1, keeps its other fields, every other entry, the count and the order
C8_AddExisting ==
    [][\A product \in Products :
          (addToCart(product) /\ FindIndex(nextCart, product.id) # 0)
             => LET k == FindIndex(nextCart, product.id)
                IN  /\ Len(nextCart') = Len(nextCart)
                    /\ SameButQuantity(nextCart'[k], nextCart[k])
                    /\ nextCart'[k].quantity = nextCart[k].quantity + 1
                    /\ \A i \in 1 .. Len(nextCart) : i # k => nextCart'[i] = nextCart[i]]_vars

\* C8 witness: p1 added, then added again (as the same product or as one with
\* other fields): one entry, quantity 2, the first fields, the panel open
C8_Witness ==
    /\ loaded /\ Settled /\ isCartOpen
    /\ cart = <<Item(P1, 2)>>

\* C9: for a non-empty id and a quantity <= 0, a step is an updateQuantity step
\* exactly when it is a removeFromCart step: the two give the same store
C9_UpdateIsRemove ==
    [][\A id \in IdArgs \ {""}, quantity \in QuantityArgs :
          quantity <= 0 => (updateQuantity(id, quantity) <=> removeFromCart(id))]_vars

\* C9 witness: an entry was dropped from a two-entry cart and the other is left
C9_Witness ==
    /\ Len(cart) = 2 /\ cartChanged /\ Len(nextCart) = 1
    /\ nextCart[1] = cart[2] /\ nextIsCartOpen = isCartOpen

\* C10: addToCart without a product, or with a product whose id is empty, changes
\* neither the cart nor isCartOpen
C10_InvalidAdd ==
    [][\A product \in ProductArgs :
          (addToCart(product) /\ (IsNull(product) \/ product.id = ""))
             => UNCHANGED <<cart, isCartOpen, nextCart, nextIsCartOpen, cartChanged>>]_vars

\* C10 witness: a store with a non-empty cart and the panel closed, where the
\* call can be made
C10_Witness ==
    /\ CanCall /\ loaded /\ Settled /\ Len(cart) = 1 /\ ~isCartOpen

\* C11 as claimed: in every outcome, also without a persistence backend, the
\* loaded flag becomes true and stays true
C11_AlwaysCompletes == <>[]loaded

\* C11 amended: where there is a window, whatever the stored text and whichever
\* storage calls throw, hydration runs once, sets loaded once, and the flag becomes
\* true and stays true, with the cart empty or the stored cart; without a window
\* the effect returns at once and loaded stays false
C11_CompletesWithWindow ==
    /\ [][~hydratePending => ~hydratePending']_vars
    /\ [][(nextLoaded' # nextLoaded) => (HydrateEffect /\ nextLoaded')]_vars
    /\ [][loaded => loaded']_vars
    /\ hasWindow => <>[](loaded /\ cart \in {<<>>} \cup SavedCarts)
    /\ ~hasWindow => [](~loaded /\ cart = <<>>)

\* C11 witness: reading and erasing both throw, and hydration is complete
C11_Witness ==
    /\ hasWindow /\ {"getItem", "removeItem"} \subseteq broken
    /\ loaded /\ ~hydratePending /\ cart = <<>> /\ storage # NoKey

\* C12: the step of a scheduled save effect whose write fails changes neither the
\* rendered store nor the hook state nor the stored text, leaves the effect
\* unscheduled and raises nothing; with a failing setItem every mutation still
\* gives the updater's cart and every render shows it
C12_FailedWrite ==
    /\ [][(persistPending /\ ~hydratePending /\ loaded /\ hasWindow
              /\ "setItem" \in broken)
             => (/\ UNCHANGED <<rendered, hooks, storage>>
                 /\ ~persistPending' /\ ~raised')]_vars
    /\ [][\A product \in Products :
             (addToCart(product) /\ "setItem" \in broken)
                => nextCart' = AddUpdater(nextCart, product)]_vars
    /\ [][(Render /\ "setItem" \in broken) => cart' = nextCart]_vars

\* C12 witness: setItem throws; a cart built by two mutations is rendered, its
\* writes have failed and are not pending, storage still holds the old text
C12_Witness ==
    /\ hasWindow /\ "setItem" \in broken /\ ~raised
    /\ loaded /\ Settled
    /\ cart = <<Item(P2, 2), Item(P1, 1)>>
    /\ storage # JSONstringify(cart)

\* C13: every entry of the cart has a quantity > 0 and no two entries share an id,
\* also after hydrating any stored array
C13_ValidEntries ==
    /\ UniqueIds(cart) /\ PositiveQuantities(cart)
    /\ UniqueIds(nextCart) /\ PositiveQuantities(nextCart)

\* C14: every addToCart of a product with a non-empty id leaves isCartOpen true
\* in the hook, and the next render shows it
C14_AddOpens ==
    /\ [][\A product \in Products : addToCart(product) => nextIsCartOpen']_vars
    /\ [][Render => isCartOpen' = nextIsCartOpen]_vars

\* C14 witness: an entry was added while the panel was closed, and the panel is
\* to open
C14_Witness ==
    /\ ~isCartOpen /\ nextIsCartOpen /\ cartChanged
    /\ Len(nextCart) = Len(cart) + 1

C16_AddNew ==
    [][\A product \in Products :
          (addToCart(product) /\ FindIndex(nextCart, product.id) = 0)
             => /\ Len(nextCart') = Len(nextCart) + 1
                /\ SubSeq(nextCart', 1, Len(nextCart)) = nextCart
                /\ SameButQuantity(nextCart'[Len(nextCart')], product)
                /\ nextCart'[Len(nextCart')].quantity = 1]_vars

\* C16 witness: the product without an image was added to an empty cart, then
\* another product after it
C16_Witness ==
    /\ loaded /\ Settled
    /\ cart = <<Item(P1New, 1), Item(P2, 1)>>

\* C17: updateQuantity(id, q) with q > 0 sets the quantity of the entries with that
\* id to q and keeps their other fields, every other entry, the order and the
\* count; with an empty id or an id not in the cart the cart is the same
C17_UpdateFrame ==
    [][\A id \in IdArgs, quantity \in 1 .. MaxQty :
          updateQuantity(id, quantity)
             => /\ Len(nextCart') = Len(nextCart)
                /\ \A i \in 1 .. Len(nextCart) :
                      IF id # "" /\ nextCart[i].id = id
                      THEN /\ SameButQuantity(nextCart'[i], nextCart[i])
                           /\ nextCart'[i].quantity = quantity
                      ELSE nextCart'[i] = nextCart[i]
                /\ (id = "" \/ FindIndex(nextCart, id) = 0) => nextCart' = nextCart]_vars

\* C17 witness: the first of two entries was lowered from MaxQty to 1, the second
\* is as rendered
C17_Witness ==
    /\ Len(cart) = 2 /\ Len(nextCart) = 2 /\ cartChanged
    /\ cart[1].quantity = MaxQty /\ nextCart[1].quantity = 1
    /\ nextCart[1].id = cart[1].id /\ nextCart[2] = cart[2]

\* items without its k-th entry (all of items for k = 0)
WithoutIndex(items, k) ==
    IF k = 0
    THEN items
    ELSE SubSeq(items, 1, k - 1) \o SubSeq(items, k + 1, Len(items))

\* C18: removeFromCart(id) takes the entry with that id out and keeps the others
\* in order; with an empty id or an id not in the cart the cart is the same; after
\* it no entry has the id, so a second removal changes nothing
C18_RemoveFrame ==
    [][\A id \in IdArgs :
          removeFromCart(id)
             => /\ nextCart' = WithoutIndex(nextCart,
                                  IF id = "" THEN 0 ELSE FindIndex(nextCart, id))
                /\ id # "" => FindIndex(nextCart', id) = 0
                /\ id # "" => RemoveUpdater(nextCart', id) = nextCart']_vars

\* C18 witness: the second of two entries was removed and the first is left
C18_Witness ==
    /\ Len(cart) = 2 /\ cartChanged /\ ~cleared
    /\ nextCart = <<cart[1]>>

\* C19: isCartOpen changes in the hook only by an addToCart of a valid product or
\* by setIsCartOpen, and on screen only by the render that shows the hook's
\* value; setIsCartOpen(b) sets it to b and changes neither the cart nor the
\* stored text, and the render after it schedules no write
C19_PanelFrame ==
    /\ [][nextIsCartOpen' # nextIsCartOpen
             => \/ \E product \in Products : addToCart(product)
                \/ \E isOpen \in BOOLEAN : setIsCartOpen(isOpen)]_vars
    /\ [][\A isOpen \in BOOLEAN :
             setIsCartOpen(isOpen)
                => /\ nextIsCartOpen' = isOpen
                   /\ UNCHANGED <<cart, nextCart, cartChanged, storage>>]_vars
    /\ [][isCartOpen' # isCartOpen => (Render /\ isCartOpen' = nextIsCartOpen)]_vars
    /\ [][(Render /\ ~cartChanged /\ nextLoaded = loaded)
             => (~persistPending' /\ UNCHANGED <<cart, storage>>)]_vars

\* C19 witness: the panel of a saved, non-empty cart is open and setIsCartOpen(false)
\* was called
C19_Witness ==
    /\ loaded /\ isCartOpen /\ ~nextIsCartOpen /\ ~cartChanged
    /\ Len(cart) > 0 /\ storage = JSONstringify(cart)

\* the quantity the cart holds of an id
RECURSIVE QuantityOf(_, _)
QuantityOf(items, id) ==
    IF items = <<>>
    THEN 0
    ELSE (IF Head(items).id = id THEN Head(items).quantity ELSE 0)
            + QuantityOf(Tail(items), id)

\* C20: every addToCart is applied to the cart the mutations before it produced,
\* rendered or not, and raises the quantity of its id by 1; the render shows the
\* cart of the last mutation, so no update is lost
C20_Compose ==
    /\ [][\A product \in Products :
             addToCart(product)
                => QuantityOf(nextCart', product.id) =
                      QuantityOf(nextCart, product.id) + 1]_vars
    /\ [][Render => (cart' = nextCart /\ nextCart' = nextCart)]_vars
    /\ [](~cartChanged => cart = nextCart)

\* C20 witness: addToCart was called twice for p2 on the empty rendered cart
\* before a render
C20_Witness ==
    /\ loaded /\ cartChanged /\ cart = <<>>
    /\ nextCart = <<Item(P2, 2)>>

====
